---- MODULE Spec2Model ----
(***************************************************************************)
(* Model of the residual-streams probing library:                          *)
(*   - the variable-length model adapters (sequence and image families),   *)
(*     src/model.py and src/src/models/image.py;                           *)
(*   - the streaming metrics Kurtosis, RotatedKurtosis, RMS, Distribution, *)
(*     src/src/metrics/*.py.                                               *)
(* Tensors are nested sequences of integers, shaped [B, N, H]; the results *)
(* of the float reductions are exact rationals <<num, den>>, with          *)
(* <<0, 0>> standing for the IEEE not-a-number that 0/0 produces.          *)
(* Network blocks (stem, residual blocks, downsample projections, head)    *)
(* are opaque: a tensor that went through them is the sequence of the      *)
(* operations applied to the input, in order.                              *)
(***************************************************************************)
EXTENDS Integers, Sequences, FiniteSets, TLC

(***************************************************************************)
(* Bounds of the model.                                                    *)
(***************************************************************************)
MaxGroups == 2      \* residual-block groups (or encoder blocks) of an adapter
MaxBlocks == 2      \* blocks in one residual group
MaxLayers == 2      \* layers of a NormalizedOutput fed to a metric
MaxBatch == 2       \* samples in one batch
MaxForwards == 2    \* batches the evaluation driver feeds to the metrics
MaxVal == 2         \* activation entries given to Distribution.process are in -1..MaxVal
Width == 3          \* hidden width H of the tensors given to Distribution.process

\* Python's None where a list is optional; every list such a place holds in
\* the model has at least one entry.
None == <<>>

\* None where a module is optional
NoModule == "None"

(***************************************************************************)
(* Generic helpers.                                                        *)
(***************************************************************************)
\* f[1] + ... + f[n]
RECURSIVE SumTo(_, _)
SumTo(f, n) == IF n = 0 THEN 0 ELSE SumTo(f, n - 1) + f[n]

SumSeq(s) == SumTo(s, Len(s))

Abs(n) == IF n < 0 THEN -n ELSE n

RECURSIVE GCD(_, _)
GCD(a, b) == IF b = 0 THEN a ELSE GCD(b, a % b)

(***************************************************************************)
(* Float arithmetic, exact: a value is <<num, den>> in lowest terms with   *)
(* den > 0, or NaN.  Every division by zero in the modelled code has a     *)
(* zero numerator (an all-zero row divided by its sum, the fourth moment   *)
(* of a constant row divided by its squared variance), so it yields NaN    *)
(* and NaN propagates through every later operation.                       *)
(***************************************************************************)
NaN == <<0, 0>>

IsNaN(q) == q[2] = 0

Norm(n, d) ==
    IF d = 0 THEN NaN
    ELSE LET g == GCD(Abs(n), Abs(d))
             s == IF d < 0 THEN -1 ELSE 1
         IN  <<(s * n) \div g, (s * d) \div g>>

Rat(n) == <<n, 1>>

RAdd(p, q) == IF IsNaN(p) \/ IsNaN(q) THEN NaN
              ELSE Norm(p[1] * q[2] + q[1] * p[2], p[2] * q[2])

RDiv(p, q) == IF IsNaN(p) \/ IsNaN(q) THEN NaN
              ELSE Norm(p[1] * q[2], p[2] * q[1])

\* f[1] + ... + f[n]
RECURSIVE RSum(_, _)
RSum(f, n) == IF n = 0 THEN Rat(0) ELSE RAdd(RSum(f, n - 1), f[n])

RMean(f, n) == RDiv(RSum(f, n), Rat(n))

(***************************************************************************)
(* Adapters: src/model.py, src/src/models/image.py                         *)
(***************************************************************************)
VARIABLES
    adapter,            \* the constructed adapter: kind, torso, head
    pc,                 \* position of forward: "idle", "group", "block", "done"
    gi,                 \* index of the current group of the torso (0-based)
    bj,                 \* index of the current block of the group (0-based)
    x,                  \* the running activation
    layer_outputs,      \* local list layer_outputs of forward
    layer_predictions,  \* local list layer_predictions of forward
    realigned,          \* number of times forward replaced layer_predictions by its projection
    result              \* the VariableLengthClassifierOutput forward returned, or None

adVars == <<adapter, pc, gi, bj, x, layer_outputs, layer_predictions, realigned, result>>

ImageKinds == {"resnet", "reduced-resnet"}

\* A residual group: its number of blocks and whether its first block has a
\* downsample projection (torchvision: None or a non-empty nn.Sequential).
Groups == [blocks : 1..MaxBlocks, downsample : BOOLEAN]

ImageAdapters ==
    {[kind |-> k, torso |-> t, head |-> "head"] :
        k \in ImageKinds, t \in UNION {[1..n -> Groups] : n \in 1..MaxGroups}}

\* A sequence adapter: torso is the list of encoder blocks, head is optional.
SequenceAdapters ==
    {[kind |-> "sequence", torso |-> [i \in 1..n |-> "block"], head |-> h] :
        n \in 0..MaxGroups, h \in {NoModule, "classifier"}}

Adapters == ImageAdapters \cup SequenceAdapters

\* Opaque network operations on a symbolic tensor.
Apply(op, t) == Append(t, op)

Stem(t) == Apply(<<"feature_extractor">>, t)

Block(g, j, t) == Apply(<<"block", g, j>>, t)

Downsample(g, t) == Apply(<<"downsample", g>>, t)

HeadOf(t) == Apply(<<"head">>, t)

SpatialMean(t) == Apply(<<"mean">>, t)

(* layers property of the image adapters: (i, j) for every block j of every group i *)
RECURSIVE ImageLayersFrom(_, _)
ImageLayersFrom(torso, i) ==
    IF i > Len(torso) THEN <<>>
    ELSE [j \in 1..torso[i].blocks |-> <<i - 1, j - 1>>] \o ImageLayersFrom(torso, i + 1)

ImageLayersGroupsOnly(a) == [i \in 1..Len(a.torso) |-> <<i - 1, 0>>]

ImageLayers(a) == ImageLayersFrom(a.torso, 1)

(* layers property of the sequence adapter: (i, 0) for i in range(len(torso) + 1) *)
SequenceLayers(a) == [i \in 1..(Len(a.torso) + 1) |-> <<i - 1, 0>>]

Layers(a) == IF a.kind = "sequence" THEN SequenceLayers(a) ELSE ImageLayers(a)

(* The underlying transformers model called with output_hidden_states=True: *)
(* the embedding output followed by the output of every encoder block.      *)
RECURSIVE EncoderState(_)
EncoderState(i) ==
    IF i = 0 THEN <<<<"input_ids">>, <<"embeddings">>>>
    ELSE Block(0, i - 1, EncoderState(i - 1))

HiddenStates(a) == [i \in 1..(Len(a.torso) + 1) |-> EncoderState(i - 1)]

\* before forward has returned
NoResult == [layer_activations |-> <<>>, layer_predictions |-> None]

AdapterInit ==
    /\ adapter \in Adapters
    /\ pc = "idle"
    /\ gi = 0
    /\ bj = 0
    /\ x = <<>>
    /\ layer_outputs = <<>>
    /\ layer_predictions = <<>>
    /\ realigned = 0
    /\ result = NoResult

SequenceForwardFinalOnly ==
    /\ pc = "idle"
    /\ adapter.kind = "sequence"
    /\ LET hidden_states == HiddenStates(adapter)
           predictions == IF adapter.head # NoModule
                          THEN <<HeadOf(hidden_states[Len(hidden_states)])>>
                          ELSE None
       IN  result' = [layer_activations |-> hidden_states,
                      layer_predictions |-> predictions]
    /\ pc' = "done"
    /\ UNCHANGED <<adapter, gi, bj, x, layer_outputs, layer_predictions, realigned>>

(* ReducedLengthModelForSequenceClassification.forward, whole *)
SequenceForward ==
    /\ pc = "idle"
    /\ adapter.kind = "sequence"
    /\ LET hidden_states == HiddenStates(adapter)
           predictions == IF adapter.head # NoModule
                          THEN [i \in 1..Len(hidden_states) |-> HeadOf(hidden_states[i])]
                          ELSE None
       IN  result' = [layer_activations |-> hidden_states,
                      layer_predictions |-> predictions]
    /\ pc' = "done"
    /\ UNCHANGED <<adapter, gi, bj, x, layer_outputs, layer_predictions, realigned>>

(* image forward: the lists are created and the stem is run *)
ImageBegin ==
    /\ pc = "idle"
    /\ adapter.kind \in ImageKinds
    /\ x' = Stem(<<<<"pixel_values">>>>)
    /\ layer_outputs' = <<>>
    /\ layer_predictions' = <<>>
    /\ gi' = 0
    /\ bj' = 0
    /\ pc' = "group"
    /\ UNCHANGED <<adapter, realigned, result>>

EnterGroupSkipEmpty ==
    /\ pc = "group"
    /\ gi < Len(adapter.torso)
    /\ IF adapter.torso[gi + 1].downsample /\ layer_predictions # <<>>
       THEN /\ layer_predictions' =
                   [k \in 1..Len(layer_predictions) |-> Downsample(gi, layer_predictions[k])]
            /\ realigned' = realigned + 1
       ELSE UNCHANGED <<layer_predictions, realigned>>
    /\ bj' = 0
    /\ pc' = "block"
    /\ UNCHANGED <<adapter, gi, x, layer_outputs, result>>

EnterGroupLastOnly ==
    /\ pc = "group"
    /\ gi < Len(adapter.torso)
    /\ IF adapter.torso[gi + 1].downsample
       THEN /\ layer_predictions' =
                   [k \in 1..Len(layer_predictions) |->
                       IF k = Len(layer_predictions)
                       THEN Downsample(gi, layer_predictions[k])
                       ELSE layer_predictions[k]]
            /\ realigned' = realigned + 1
       ELSE UNCHANGED <<layer_predictions, realigned>>
    /\ bj' = 0
    /\ pc' = "block"
    /\ UNCHANGED <<adapter, gi, x, layer_outputs, result>>

(* image forward: `for layer in self.torso: if layer[0].downsample: ...` *)
EnterGroup ==
    /\ pc = "group"
    /\ gi < Len(adapter.torso)
    /\ IF adapter.torso[gi + 1].downsample
       THEN /\ layer_predictions' =
                   [k \in 1..Len(layer_predictions) |-> Downsample(gi, layer_predictions[k])]
            /\ realigned' = realigned + 1
       ELSE UNCHANGED <<layer_predictions, realigned>>
    /\ bj' = 0
    /\ pc' = "block"
    /\ UNCHANGED <<adapter, gi, x, layer_outputs, result>>

\* What forward appends to layer_outputs for the block output t.
Activation(kind, t) == IF kind = "resnet" THEN SpatialMean(t) ELSE t

(* image forward: one iteration of `for block in layer` *)
RunBlock ==
    /\ pc = "block"
    /\ bj < adapter.torso[gi + 1].blocks
    /\ LET y == Block(gi, bj, x)
       IN  /\ x' = y
           /\ layer_outputs' = Append(layer_outputs, Activation(adapter.kind, y))
           /\ layer_predictions' = Append(layer_predictions, y)
    /\ bj' = bj + 1
    /\ UNCHANGED <<adapter, pc, gi, realigned, result>>

(* image forward: the inner loop is exhausted, next group *)
LeaveGroup ==
    /\ pc = "block"
    /\ bj = adapter.torso[gi + 1].blocks
    /\ gi' = gi + 1
    /\ pc' = "group"
    /\ UNCHANGED <<adapter, bj, x, layer_outputs, layer_predictions, realigned, result>>

(* image forward: the head on every candidate, and the return *)
ImageReturn ==
    /\ pc = "group"
    /\ gi = Len(adapter.torso)
    /\ layer_predictions' =
           [k \in 1..Len(layer_predictions) |-> HeadOf(layer_predictions[k])]
    /\ result' = [layer_activations |-> layer_outputs,
                  layer_predictions |-> layer_predictions']
    /\ pc' = "done"
    /\ UNCHANGED <<adapter, gi, bj, x, layer_outputs, realigned>>

(***************************************************************************)
(* Tensors [B, N, H] and the numeric library calls the metrics make.       *)
(***************************************************************************)
BatchSize(t) == Len(t)

\* torch matmul of a [B, N, H] tensor with an [H, H] matrix
MatMul(t, r) ==
    [b \in 1..Len(t) |->
        [n \in 1..Len(t[b]) |->
            [j \in 1..Len(r[1]) |->
                SumTo([k \in 1..Len(r) |-> t[b][n][k] * r[k][j]], Len(r))]]]

\* Python's `activation @= rotation` on a torch tensor.  torch.Tensor defines
\* __matmul__ and __rmatmul__ but no __imatmul__, so the statement evaluates
\* activation @ rotation into a new tensor and rebinds the loop variable:
\* `name` is what the variable refers to afterwards, `object` is the content
\* of the tensor object the variable referred to before.
IMatMulInPlace(activation, rotation) ==
    [name |-> MatMul(activation, rotation), object |-> MatMul(activation, rotation)]

IMatMul(activation, rotation) ==
    [name |-> MatMul(activation, rotation), object |-> activation]

\* scipy.stats.kurtosis(row, fisher=False): m4 / m2^2 of the population
\* central moments; with d[k] = H * (row[k] - mean) this is H * sum d^4 / (sum d^2)^2
KurtosisRow(row) ==
    LET h == Len(row)
        total == SumSeq(row)
        d == [k \in 1..h |-> h * row[k] - total]
        s2 == SumTo([k \in 1..h |-> d[k] * d[k]], h)
        s4 == SumTo([k \in 1..h |-> d[k] * d[k] * d[k] * d[k]], h)
    IN  RDiv(Rat(h * s4), Rat(s2 * s2))

\* torch.sort(..., dim=-1).values on one row
RECURSIVE Insert(_, _)
Insert(v, s) ==
    IF s = <<>> THEN <<v>>
    ELSE IF v <= Head(s) THEN <<v>> \o s
    ELSE <<Head(s)>> \o Insert(v, Tail(s))

RECURSIVE SortRow(_)
SortRow(row) == IF row = <<>> THEN <<>> ELSE Insert(Head(row), SortRow(Tail(row)))

AllPositive(t) == \A b \in 1..Len(t) : \A n \in 1..Len(t[b]) :
                      \A k \in 1..Len(t[b][n]) : t[b][n][k] > 0

ClipRow(row) == [k \in 1..Len(row) |-> IF row[k] <= 0 THEN 0 ELSE row[k]]

NormaliseRow(row) ==
    LET total == SumSeq(row)
    IN  [k \in 1..Len(row) |-> RDiv(Rat(row[k]), Rat(total))]

\* the three steps of process over every row of a [B, N, H] tensor
SortRows(t) == [b \in 1..Len(t) |-> [n \in 1..Len(t[b]) |-> SortRow(t[b][n])]]

ClipRows(t) == [b \in 1..Len(t) |-> [n \in 1..Len(t[b]) |-> ClipRow(t[b][n])]]

NormaliseRows(t) == [b \in 1..Len(t) |-> [n \in 1..Len(t[b]) |-> NormaliseRow(t[b][n])]]

(* Distribution.process *)
Process(activations) ==
    LET sorted_values == SortRows(activations)
        clipped == IF ~AllPositive(sorted_values)
                   THEN ClipRows(sorted_values)
                   ELSE sorted_values
    IN  NormaliseRows(clipped)

(***************************************************************************)
(* Per-layer reductions: what each update adds to self.value.              *)
(***************************************************************************)
(* Kurtosis.update: kurtosis(axis=-1).mean(axis=-1).sum() per layer *)
KurtosisReduction(layer_activations) ==
    [i \in 1..Len(layer_activations) |->
        LET a == layer_activations[i]
        IN  RSum([b \in 1..Len(a) |->
                     RMean([n \in 1..Len(a[b]) |-> KurtosisRow(a[b][n])], Len(a[b]))],
                 Len(a))]

SquareMean(sample) ==
    RDiv(Rat(SumTo([n \in 1..Len(sample) |->
                        SumTo([k \in 1..Len(sample[n]) |-> sample[n][k] * sample[n][k]],
                              Len(sample[n]))],
                   Len(sample))),
         Rat(Len(sample) * Len(sample[1])))

(* RMS.update: np.sum([(a ** 2).mean(axis=(-1, -2)) for a in ...], axis=1) *)
RMSReductionBatchMean(layer_activations) ==
    [i \in 1..Len(layer_activations) |->
        LET a == layer_activations[i]
        IN  RMean([b \in 1..Len(a) |-> SquareMean(a[b])], Len(a))]

RMSReduction(layer_activations) ==
    [i \in 1..Len(layer_activations) |->
        LET a == layer_activations[i]
        IN  RSum([b \in 1..Len(a) |-> SquareMean(a[b])], Len(a))]

(* Distribution.update: process(a).mean(axis=-2).sum(-2) per layer, an [H] row *)
DistributionReduction(layer_activations) ==
    [i \in 1..Len(layer_activations) |->
        LET a == layer_activations[i]
            p == Process(a)
        IN  [k \in 1..Len(a[1][1]) |->
                RSum([b \in 1..Len(a) |->
                         RMean([n \in 1..Len(a[b]) |-> p[b][n][k]], Len(a[b]))],
                     Len(a))]]

(***************************************************************************)
(* The accumulator.  Metric (metrics/base.py) sets value and count at      *)
(* construction and counts the samples of every batch in update; the       *)
(* concrete metrics add to value with numpy's in-place +=.                 *)
(***************************************************************************)
MetricNames == {"kurtosis", "rotated-kurtosis", "rms", "distribution"}

\* self.value before the first update: the neutral element of the first +=
Unset == <<>>

\* sum of two [H] rows of floats, the entries of Distribution's value
RowAdd(p, q) == [k \in 1..Len(p) |-> RAdd(p[k], q[k])]

\* numpy `value += inc` on the first axis: the shapes must be equal, or inc
\* has length 1 and is broadcast; anything else raises ValueError.
CanIAdd(value, inc) == value = Unset \/ Len(inc) = Len(value) \/ Len(inc) = 1

\* on an array of floats (Kurtosis, RMS)
IAdd(value, inc) ==
    IF value = Unset THEN inc
    ELSE [i \in 1..Len(value) |->
             RAdd(value[i], IF Len(inc) = Len(value) THEN inc[i] ELSE inc[1])]

\* on an array of [H] rows (Distribution)
IAddRows(value, inc) ==
    IF value = Unset THEN inc
    ELSE [i \in 1..Len(value) |->
             RowAdd(value[i], IF Len(inc) = Len(value) THEN inc[i] ELSE inc[1])]

(* Metric.update: count the samples of the batch *)
BaseCount(count, layer_activations) == count + BatchSize(layer_activations[1])

(* RMS.compute: np.sqrt(value / count); the root stays symbolic *)
RMSCompute(value, count) == [i \in 1..Len(value) |-> <<"sqrt", RDiv(value[i], Rat(count))>>]

(***************************************************************************)
(* The metrics over the outputs of successive forward calls.               *)
(***************************************************************************)
VARIABLES
    model_output,   \* layer_activations of the current NormalizedOutput (the live tensors)
    forwarded,      \* the same list as forward returned it
    value,          \* value[m]: self.value of metric m
    count,          \* count[m]: self.count of metric m
    raised,         \* raised[m]: an update of m raised
    rotations,      \* self.rotations of the RotatedKurtosis instance
    pending,        \* metrics the driver has not yet updated with the current output
    added,          \* added[m]: what the last update of m added to value
    seen,           \* seen[m]: layer counts of the outputs m accumulated, in order
    forwards        \* number of forward calls so far

mVars == <<model_output, forwarded, value, count, raised, rotations, pending,
           added, seen, forwards>>

\* Samples [N, H] the batches are made of.
SampleCycle ==
    << <<<<0, 0, 1, 1>>, <<1, 2, 0, -1>>>>,
       <<<<1, 1, 2, 3>>, <<2, 1, 1, 1>>>> >>

SamplePool == {SampleCycle[c] : c \in 1..Len(SampleCycle)}

\* Layer tensors [B, N, H] of batch size b.
Tensors(b) == [1..b -> SamplePool]

\* layer_activations lists: 1..MaxLayers layers over one batch of 1..MaxBatch samples
Outputs == UNION {[1..l -> Tensors(b)] : l \in 1..MaxLayers, b \in 1..MaxBatch}

\* l layers of one sample each, the samples taken in turn from position c on
Layered(c, l) == [i \in 1..l |-> <<SampleCycle[((c + i) % Len(SampleCycle)) + 1]>>]

\* layer_activations lists the driver feeds to the metrics
MetricOutputs == {Layered(c, l) : c \in 1..Len(SampleCycle), l \in 1..MaxLayers}

\* Orthogonal [H, H] matrices torch.linalg.qr(torch.randn(H, H))[0] may return.
RotPool ==
    { <<<<1, 0, 0, 0>>, <<0, 1, 0, 0>>, <<0, 0, 1, 0>>, <<0, 0, 0, -1>>>>,
      <<<<0, 1, 0, 0>>, <<0, 0, 1, 0>>, <<0, 0, 0, 1>>, <<-1, 0, 0, 0>>>> }

MetricInit ==
    /\ model_output = None
    /\ forwarded = None
    /\ value = [m \in MetricNames |-> Unset]
    /\ count = [m \in MetricNames |-> 0]
    /\ raised = [m \in MetricNames |-> FALSE]
    /\ rotations = None
    /\ pending = {}
    /\ added = [m \in MetricNames |-> None]
    /\ seen = [m \in MetricNames |-> <<>>]
    /\ forwards = 0

(* the driver's next batch: adapter.forward returns a fresh output *)
Forward ==
    /\ forwards < MaxForwards
    /\ pending = {}
    /\ \E out \in MetricOutputs :
          /\ model_output' = out
          /\ forwarded' = out
    /\ pending' = {m \in MetricNames : ~raised[m]}
    /\ forwards' = forwards + 1
    /\ UNCHANGED <<value, count, raised, rotations, added, seen>>

\* The body shared by the update methods: `self.value += inc` giving total
\* or raising, then Metric.update.
Accumulate(m, inc, total) ==
    IF CanIAdd(value[m], inc)
    THEN /\ value' = [value EXCEPT ![m] = total]
         /\ count' = [count EXCEPT ![m] = BaseCount(count[m], model_output')]
         /\ added' = [added EXCEPT ![m] = inc]
         /\ seen' = [seen EXCEPT ![m] = Append(seen[m], Len(model_output'))]
         /\ UNCHANGED raised
    ELSE /\ raised' = [raised EXCEPT ![m] = TRUE]
         /\ UNCHANGED <<value, count, added, seen>>

(* Kurtosis.update *)
KurtosisUpdate ==
    /\ "kurtosis" \in pending
    /\ model_output' = model_output
    /\ Accumulate("kurtosis", KurtosisReduction(model_output'),
                  IAdd(value["kurtosis"], KurtosisReduction(model_output')))
    /\ pending' = pending \ {"kurtosis"}
    /\ UNCHANGED <<forwarded, rotations, forwards>>

\* `for activation, rotation in zip(layer_activations, rotations): activation @= rotation`
\* the tensor objects of the list after the loop
RotateLoop(layer_activations, rots) ==
    [i \in 1..Len(layer_activations) |->
        IF i <= Len(rots)
        THEN IMatMul(layer_activations[i], rots[i]).object
        ELSE layer_activations[i]]

NewRotations(layer_activations) == [1..Len(layer_activations) -> RotPool]

\* the rotations an update call works with: generated when self.rotations is None
RotationsForAlways(layer_activations) == NewRotations(layer_activations)

RotationsFor(layer_activations) ==
    IF rotations = None THEN NewRotations(layer_activations) ELSE {rotations}

(* RotatedKurtosis.update *)
RotatedKurtosisUpdate ==
    /\ "rotated-kurtosis" \in pending
    /\ \E rots \in RotationsFor(model_output) :
          /\ rotations' = rots
          /\ model_output' = RotateLoop(model_output, rots)
    /\ Accumulate("rotated-kurtosis", KurtosisReduction(model_output'),
                  IAdd(value["rotated-kurtosis"], KurtosisReduction(model_output')))
    /\ pending' = pending \ {"rotated-kurtosis"}
    /\ UNCHANGED <<forwarded, forwards>>

(* RMS.update *)
RMSUpdate ==
    /\ "rms" \in pending
    /\ model_output' = model_output
    /\ Accumulate("rms", RMSReduction(model_output'),
                  IAdd(value["rms"], RMSReduction(model_output')))
    /\ pending' = pending \ {"rms"}
    /\ UNCHANGED <<forwarded, rotations, forwards>>

(* Distribution.update *)
DistributionUpdate ==
    /\ "distribution" \in pending
    /\ model_output' = model_output
    /\ Accumulate("distribution", DistributionReduction(model_output'),
                  IAddRows(value["distribution"], DistributionReduction(model_output')))
    /\ pending' = pending \ {"distribution"}
    /\ UNCHANGED <<forwarded, rotations, forwards>>

(***************************************************************************)
(* Two RMS accumulators: one fed two batches in turn, one fed their        *)
(* concatenation along the batch axis.                                     *)
(***************************************************************************)
VARIABLES
    batch1,     \* layer_activations of the first batch
    batch2,     \* layer_activations of the second batch
    split,      \* the RMS instance updated with batch1, then batch2
    joined,     \* the RMS instance updated once with the concatenation
    computed    \* what compute() returned, per instance, or None

linVars == <<batch1, batch2, split, joined, computed>>

\* torch.cat along the batch axis, layer by layer
Concat(o1, o2) == [i \in 1..Len(o1) |-> o1[i] \o o2[i]]

\* l layers with the activations t
Uniform(t, l) == [i \in 1..l |-> t]

FreshMetric == [value |-> Unset, count |-> 0, updates |-> 0]

(* RMS.update on an instance given as a record *)
RMSUpdated(metric, layer_activations) ==
    [value |-> IAdd(metric.value, RMSReduction(layer_activations)),
     count |-> BaseCount(metric.count, layer_activations),
     updates |-> metric.updates + 1]

LinInit ==
    /\ batch1 \in Outputs
    /\ batch2 \in {Uniform(t, Len(batch1)) : t \in UNION {Tensors(b) : b \in 1..MaxBatch}}
    /\ split = FreshMetric
    /\ joined = FreshMetric
    /\ computed = [split |-> None, joined |-> None]

(* split.update(batch1, ...) then split.update(batch2, ...) *)
SplitUpdate ==
    /\ split.updates < 2
    /\ computed.split = None
    /\ split' = RMSUpdated(split, IF split.updates = 0 THEN batch1 ELSE batch2)
    /\ UNCHANGED <<batch1, batch2, joined, computed>>

(* joined.update(cat(batch1, batch2), ...) *)
JoinedUpdate ==
    /\ joined.updates = 0
    /\ joined' = RMSUpdated(joined, Concat(batch1, batch2))
    /\ UNCHANGED <<batch1, batch2, split, computed>>

(* split.compute() *)
SplitCompute ==
    /\ split.updates = 2
    /\ computed.split = None
    /\ computed' = [computed EXCEPT !.split = RMSCompute(split.value, split.count)]
    /\ UNCHANGED <<batch1, batch2, split, joined>>

(* joined.compute() *)
JoinedCompute ==
    /\ joined.updates = 1
    /\ computed.joined = None
    /\ computed' = [computed EXCEPT !.joined = RMSCompute(joined.value, joined.count)]
    /\ UNCHANGED <<batch1, batch2, split, joined>>

(***************************************************************************)
(* Distribution.process as a function of its input.                        *)
(***************************************************************************)
VARIABLES
    activations,        \* the [B, N, H] tensor given to process
    normalised_values   \* what process returned, or None

distVars == <<activations, normalised_values>>

DistRows == [1..Width -> (-1)..MaxVal]

\* second rows: all positive, and mixed
SecondRows == {[k \in 1..Width |-> 1], [k \in 1..Width |-> k - 2]}

\* [1, 1, H] and [1, 2, H] tensors
DistInputs == {<<<<r1>>>> : r1 \in DistRows}
                  \cup {<<<<r1, r2>>>> : r1 \in DistRows, r2 \in SecondRows}

DistInit ==
    /\ activations \in DistInputs
    /\ normalised_values = None

(* Distribution.process(activations) *)
DistProcess ==
    /\ normalised_values = None
    /\ normalised_values' = Process(activations)
    /\ UNCHANGED activations

(***************************************************************************)
(* Specifications.  Each runs one part of the library, the variables of    *)
(* the other parts stay as constructed.                                    *)
(***************************************************************************)
vars == <<adVars, mVars, linVars, distVars>>

AdapterOff ==
    /\ adapter = [kind |-> "none", torso |-> <<>>, head |-> NoModule]
    /\ pc = "idle" /\ gi = 0 /\ bj = 0 /\ x = <<>>
    /\ layer_outputs = <<>> /\ layer_predictions = <<>> /\ realigned = 0
    /\ result = NoResult

LinOff ==
    /\ batch1 = None /\ batch2 = None /\ split = FreshMetric /\ joined = FreshMetric
    /\ computed = [split |-> None, joined |-> None]

DistOff == activations = None /\ normalised_values = None

AdapterNext ==
    \/ SequenceForward
    \/ ImageBegin
    \/ EnterGroup
    \/ RunBlock
    \/ LeaveGroup
    \/ ImageReturn

MetricNext ==
    \/ Forward
    \/ KurtosisUpdate
    \/ RotatedKurtosisUpdate
    \/ RMSUpdate
    \/ DistributionUpdate

LinNext ==
    \/ SplitUpdate
    \/ JoinedUpdate
    \/ SplitCompute
    \/ JoinedCompute

Init == AdapterInit /\ MetricInit /\ LinOff /\ DistOff

Next == AdapterNext /\ UNCHANGED <<mVars, linVars, distVars>>

Spec == Init /\ [][Next]_vars

MetricSpecInit == AdapterOff /\ MetricInit /\ LinOff /\ DistOff

MetricSpecNext == MetricNext /\ UNCHANGED <<adVars, linVars, distVars>>

MetricSpec == MetricSpecInit /\ [][MetricSpecNext]_vars

LinSpecInit == AdapterOff /\ MetricInit /\ LinInit /\ DistOff

LinSpecNext == LinNext /\ UNCHANGED <<adVars, mVars, distVars>>

LinSpec == LinSpecInit /\ [][LinSpecNext]_vars

DistSpecInit == AdapterOff /\ MetricInit /\ LinOff /\ DistInit

DistSpecNext == DistProcess /\ UNCHANGED <<adVars, mVars, linVars>>

DistSpec == DistSpecInit /\ [][DistSpecNext]_vars

(***************************************************************************)
(* Properties of the adapters (Spec).                                      *)
(***************************************************************************)
IsBlockOp(op) == op[1] = "block"

IsDownsampleOp(op) == op[1] = "downsample"

\* coordinate (group, block) of the last block a tensor went through
RECURSIVE OriginOf(_)
OriginOf(t) ==
    IF IsBlockOp(t[Len(t)]) THEN <<t[Len(t)][2], t[Len(t)][3]>>
    ELSE OriginOf(SubSeq(t, 1, Len(t) - 1))

\* groups whose downsample projection a tensor went through, in order
ProjectionsOf(t) ==
    LET ops == SelectSeq(t, IsDownsampleOp)
    IN  [k \in 1..Len(ops) |-> ops[k][2]]

\* groups g+1 .. last that define a downsample projection, in order
RECURSIVE DownsamplesAfter(_, _, _)
DownsamplesAfter(torso, g, last) ==
    IF g >= last THEN <<>>
    ELSE (IF torso[g + 2].downsample THEN <<g + 1>> ELSE <<>>)
         \o DownsamplesAfter(torso, g + 1, last)

\* C1: whenever forward has returned, layer_activations has as many entries
\* as the adapter's layers; for an image adapter entry k is the output of the
\* block at coordinate layers[k], for a sequence adapter there are
\* len(torso) + 1 entries and layers[k] = (k, 0).
LayersMatchActivations ==
    pc = "done" =>
        /\ Len(Layers(adapter)) = Len(result.layer_activations)
        /\ adapter.kind \in ImageKinds =>
              \A k \in 1..Len(result.layer_activations) :
                  OriginOf(result.layer_activations[k]) = Layers(adapter)[k]
        /\ adapter.kind = "sequence" =>
              /\ Len(result.layer_activations) = Len(adapter.torso) + 1
              /\ \A k \in 1..Len(result.layer_activations) :
                    Layers(adapter)[k] = <<k - 1, 0>>

LayersMatchActivationsWitness ==
    /\ pc = "done"
    /\ adapter.kind = "resnet"
    /\ Len(adapter.torso) = 2
    /\ Len(result.layer_activations) = 3

IsTwoByTwo(a) ==
    /\ a.kind \in ImageKinds
    /\ Len(a.torso) = 2
    /\ \A g \in 1..2 : a.torso[g].blocks = 2 /\ a.torso[g].downsample

\* C2: an image adapter of 2 groups of 2 blocks whose first blocks all have a
\* downsample projection returns 4 layer activations and has realigned its
\* prediction candidates exactly twice.
TwoByTwoScenario ==
    (pc = "done" /\ IsTwoByTwo(adapter)) =>
        /\ Len(result.layer_activations) = 4
        /\ realigned = 2

TwoByTwoScenarioWitness ==
    /\ pc = "done"
    /\ IsTwoByTwo(adapter)
    /\ Len(result.layer_predictions) = 4

\* C3: the sequence adapter returns layer_predictions None exactly when it has
\* no head; with a head there is one prediction per hidden state, the head
\* applied to that hidden state; with 2 torso blocks and no head it returns
\* None and 3 activations.
SequenceHeadOnEveryState ==
    (pc = "done" /\ adapter.kind = "sequence") =>
        /\ (result.layer_predictions = None) <=> (adapter.head = NoModule)
        /\ adapter.head # NoModule =>
              /\ Len(result.layer_predictions) = Len(result.layer_activations)
              /\ \A i \in 1..Len(result.layer_activations) :
                    result.layer_predictions[i] = HeadOf(result.layer_activations[i])
        /\ (Len(adapter.torso) = 2 /\ adapter.head = NoModule) =>
              /\ result.layer_predictions = None
              /\ Len(result.layer_activations) = 3

SequenceHeadOnEveryStateWitness ==
    /\ pc = "done"
    /\ adapter.kind = "sequence"
    /\ Len(adapter.torso) = 2
    /\ adapter.head # NoModule
    /\ Len(result.layer_predictions) = 3

\* the last group forward has entered, -1 before the first
LastEntered == IF pc = "block" THEN gi ELSE gi - 1

RMSLinear ==
    (split.updates = 2 /\ joined.updates = 1) =>
        /\ split.value = joined.value
        /\ split.count = joined.count
        /\ (computed.split # None /\ computed.joined # None) =>
              computed.split = computed.joined

RMSLinearWitness ==
    /\ computed.split # None
    /\ computed.joined # None
    /\ Len(batch1) = 2
    /\ BatchSize(batch1[1]) = 2
    /\ BatchSize(batch2[1]) = 1
    /\ batch1[1] # batch1[2]

IsNonNegative(q) == ~IsNaN(q) /\ q[1] >= 0

\* C5: every row Distribution.process returns sums to 1 along the hidden
\* width and has only entries >= 0, whatever the input.
ProcessNormalised ==
    normalised_values # None =>
        \A b \in 1..Len(normalised_values) : \A n \in 1..Len(normalised_values[b]) :
            LET row == normalised_values[b][n]
            IN  /\ RSum(row, Len(row)) = Rat(1)
                /\ \A k \in 1..Len(row) : IsNonNegative(row[k])

\* what an update of metric m adds for the output out when it is the first to see it
FirstAdded(m, out) ==
    CASE m = "kurtosis" -> KurtosisReduction(out)
      [] m = "rotated-kurtosis" -> KurtosisReduction(RotateLoop(out, rotations))
      [] m = "rms" -> RMSReduction(out)
      [] m = "distribution" -> DistributionReduction(out)

\* metrics that accumulated the current output
Accumulated == {m \in MetricNames : m \notin pending /\ ~raised[m] /\ seen[m] # <<>>}

\* C6: the updates only read the output: the activations are at all times as
\* forward returned them, and every metric that accumulated the current
\* output added what it adds when it is the first to be updated with it.
OutputOnlyRead ==
    /\ model_output = forwarded
    /\ \A m \in Accumulated : added[m] = FirstAdded(m, forwarded)

OutputOnlyReadWitness ==
    /\ forwards = 2
    /\ Accumulated = MetricNames
    /\ \A m \in MetricNames : Len(seen[m]) = 2

\* the activations multiplied by the rotation of their layer
Rotated(out, rots) == [i \in 1..Len(out) |-> MatMul(out[i], rots[i])]

\* C7: what RotatedKurtosis.update adds for layer i is the kurtosis reduction
\* of layer_activations[i] multiplied by rotations[i].
RotatedAddsRotated ==
    ("rotated-kurtosis" \in Accumulated /\ Len(rotations) = Len(forwarded)) =>
        added["rotated-kurtosis"] = KurtosisReduction(Rotated(forwarded, rotations))

\* C8: value has the length of the first output's layer_activations, and
\* every later update that accumulated had that same number of layers (any
\* other raised).
LayerCountFixed ==
    \A m \in MetricNames :
        seen[m] # <<>> =>
            /\ Len(value[m]) = seen[m][1]
            /\ \A i \in 1..Len(seen[m]) : seen[m][i] = seen[m][1]

IsSquare(r, h) == Len(r) = h /\ \A k \in 1..h : Len(r[k]) = h

\* C10: the rotations are unset until the first update of the instance, which
\* sets one hidden-width x hidden-width matrix per layer of its output; once
\* set, no step changes them.
RotationsFixed ==
    [][ /\ rotations # None => rotations' = rotations
        /\ (rotations' = None) <=> (seen'["rotated-kurtosis"] = <<>>)
        /\ (rotations = None /\ rotations' # None) =>
              /\ Len(rotations') = Len(forwarded)
              /\ \A i \in 1..Len(forwarded) :
                    IsSquare(rotations'[i], Len(forwarded[i][1][1])) ]_vars

RotationsFixedWitness ==
    /\ Len(seen["rotated-kurtosis"]) = 2
    /\ rotations # None
    /\ Len(rotations) = 2
    /\ rotations[1] # rotations[2]

====
